---- MODULE Spec2Model ----
(***************************************************************************)
(* Landline shuttle booking: the seat inventory of a TripInstance, the     *)
(* booking endpoint POST /api/booking with its optimistic-locking          *)
(* transaction and retry loop, and the store (one row per TripInstance,    *)
(* tables Booking and Passenger) under READ COMMITTED transactions.        *)
(*                                                                         *)
(* One request handler is a process: its position pc[r] is the await it is *)
(* suspended at, and one action runs the handler from one await to the     *)
(* next, synchronous code (checks, throw, catch, response) included.       *)
(***************************************************************************)
EXTENDS Integers, Sequences, FiniteSets, TLC

\* ------------------------------------------------------------------ bounds
NReq == 4
MaxSeats == 3

\* ------------------------------------------------------- program constants
MaxRetries == 3
MaxRefAttempts == 10
RefLength == 6

Reqs == 1..NReq

\* -------------------------------------------------------------- references
\* const chars = 'ABCDEFGHJKLMNPQRSTUVWXYZ23456789'
chars ==
  << "A", "B", "C", "D", "E", "F", "G", "H", "J", "K", "L", "M", "N", "P", "Q", "R",
     "S", "T", "U", "V", "W", "X", "Y", "Z", "2", "3", "4", "5", "6", "7", "8", "9" >>

\* chars.charAt(i): the character at 0-based index i, "" out of range
charAt(i) == IF i >= 0 /\ i < Len(chars) THEN chars[i + 1] ELSE ""

\* Math.random() returns x / RandomScale for an integer 0 <= x < RandomScale
RandomScale == 64

\* Math.random() is a generator with a state: the outcomes of its calls, six
\* per reference, in the order the server process draws them; the model's
\* generator repeats them with period Len(RandomStream)
RandomStream ==
  << << 0, 50, 18, 62, 22, 48 >>,
     << 2, 14, 63, 33, 5, 40 >>,
     << 47, 1, 29, 60, 12, 55 >> >>

\* mutant: Math.ceil(Math.random() * chars.length)
RandomIndexCeil(x) == (x * Len(chars) + RandomScale - 1) \div RandomScale

\* Math.floor(Math.random() * chars.length)
RandomIndex(x) == (x * Len(chars)) \div RandomScale

\* generateBookingRef(), as a function of the six outcomes of Math.random()
generateBookingRef(rnd) == [i \in 1..RefLength |-> charAt(RandomIndex(rnd[i]))]

NoRef == << >>

Range(f) == {f[x] : x \in DOMAIN f}

\* ------------------------------------------------------------------- store
TripInstanceIds == {"d1", "d2"}
MissingId == "dX"
\* TripInstance.status is free text: 'active' and one value that is not
Statuses == {"active", "suspended"}

NullTripInstance == [id |-> "", availableSeats |-> 0, version |-> 0, status |-> ""]
NullBooking == [id |-> 0, tripInstanceId |-> "", bookingRef |-> NoRef,
                status |-> "", passengers |-> 0]
NoResponse == [status |-> 0, success |-> FALSE, error |-> "", bookingRef |-> NoRef]

\* error messages
TripNotFound == "Trip not found"
TripUnavailable == "Trip is no longer available"
ConcurrentModification == "CONCURRENT_MODIFICATION"
UnableToComplete == "Unable to complete booking. Please try again."
InvalidRequest == "Invalid request"
DatabaseConfigurationError == "Database configuration error"
UniqueConstraintFailed == "Unique constraint failed on the fields: (bookingRef)"
StorageUnreachable == "Cannot reach database server"
OnlySeatsAvailable(n) == "Only " \o ToString(n) \o " seats available"

VARIABLES
  databaseUrl,     \* process.env.DATABASE_URL is set
  seeded,          \* the TripInstance rows as seeded, before any booking
  tripInstances,   \* table TripInstance, committed rows
  bookings,        \* table Booking, committed rows
  passengers,      \* table Passenger, committed rows
  request,         \* the body of each request
  pc,              \* each handler's position
  retries,         \* let retries
  tripInstance,    \* const tripInstance (the snapshot read by findUnique)
  bookingRef,      \* let bookingRef
  attempts,        \* let attempts
  tx,              \* the open transaction's uncommitted writes
  response,        \* the response returned to the caller
  search,          \* the response of the last call of the search endpoint
  searchCalls,     \* history: parity of the number of calls of the search endpoint
  randomState,     \* the state of Math.random(): references drawn so far
  txCount,         \* history: transactions started by the request
  firstRead,       \* history: the version the request's first attempt read
  thrown,          \* history: the error thrown by the request's current attempt
  matches,         \* history: conditional writes that matched, per row and version
  commits          \* history: conditional writes committed, per row and version

store == << tripInstances, bookings, passengers >>
locals == << retries, tripInstance, bookingRef, attempts >>
\* what the booking handler never writes
fixed == << databaseUrl, seeded, request, search, searchCalls >>
vars == << databaseUrl, seeded, tripInstances, bookings, passengers, request, pc,
           retries, tripInstance, bookingRef, attempts, tx, response, search,
           searchCalls, randomState, txCount, firstRead, thrown, matches,
           commits >>

\* the versions a row can reach: it starts at 0 or 3 and every booking adds one
Versions == 0..(3 + NReq)

\* no attempt of the request has read a row, or the request has ended
NoVersion == -1

NoTx == [tripInstance |-> NullTripInstance, booking |-> NullBooking]

\* mutant: an update takes no row lock
LockedByNone(id) == {}

\* the row lock a transaction holds on the TripInstance row it has updated
LockedBy(id) == {q \in Reqs : tx[q].tripInstance.id = id}

\* mutant: the row is read once, before the first attempt, and kept
FindTripInstanceCached(id) ==
  IF id \in DOMAIN seeded THEN seeded[id] ELSE NullTripInstance

\* tx.tripInstance.findUnique({ where: { id } }): the committed row or null
FindTripInstance(id) ==
  IF id \in DOMAIN tripInstances THEN tripInstances[id] ELSE NullTripInstance

\* tx.booking.findUnique({ where: { bookingRef } }): a committed row or null
FindBooking(ref) ==
  IF \E b \in bookings : b.bookingRef = ref
  THEN CHOOSE b \in bookings : b.bookingRef = ref
  ELSE NullBooking

\* mutant: table Booking has no unique index on bookingRef
UniqueIndexMissing(rows, ref) == FALSE

\* the unique index Booking_bookingRef_key rejects the insert of a row with `ref`
UniqueViolation(rows, ref) == \E b \in rows : b.bookingRef = ref

\* the strings z.string().email() accepts, among those the model sends
ValidEmails == {"pat@example.com"}

\* mutant: passengers is z.array(passengerSchema) without .min(1)
SchemaValidAnyPassengers(body) ==
  /\ body.tripInstanceId # ""
  /\ body.contactEmail \in ValidEmails
  /\ body.contactPhone # ""

\* bookingSchema.safeParse(body).success
SchemaValid(body) ==
  /\ body.tripInstanceId # ""
  /\ body.passengers >= 1
  /\ body.contactEmail \in ValidEmails
  /\ body.contactPhone # ""

\* ------------------------------------------------------------ transactions
\* mutant: the update has no where: { id } and rewrites every row
CommitTripInstancesAllRows(rows, t) ==
  [d \in DOMAIN rows |-> [t.tripInstance EXCEPT !.id = d]]

\* the committed TripInstance rows after transaction t commits
CommitTripInstances(rows, t) ==
  IF t.tripInstance.id \in DOMAIN rows
  THEN [rows EXCEPT ![t.tripInstance.id] = t.tripInstance]
  ELSE rows

\* mutant: the seat update is written outside the transaction and survives it
RollbackKeepsUpdate(rows, t) == CommitTripInstances(rows, t)

\* the committed TripInstance rows after transaction t is rolled back
Rollback(rows, t) == rows

\* the committed Booking rows after transaction t commits
CommitBookings(rows, t) ==
  IF t.booking = NullBooking THEN rows ELSE rows \cup {t.booking}

\* mutant: the nested create inserts the first passenger only
CommitPassengersFirstOnly(rows, t) ==
  rows \cup {[bookingId |-> t.booking.id, index |-> 1]}

\* the committed Passenger rows after transaction t commits (nested create)
CommitPassengers(rows, t) ==
  rows \cup {[bookingId |-> t.booking.id, index |-> i] : i \in 1..t.booking.passengers}

\* mutant: where: { id } only, the version is not compared
UpdateWhereIgnoresVersion(row, id, version) == row.id = id

\* where: { id, version } of updateMany: does the committed row match
UpdateWhere(row, id, version) == row.id = id /\ row.version = version

\* mutant: the update never matches a row
UpdateManyCountZero(id, version) == 0

\* updated.count of tx.tripInstance.updateMany
UpdateManyCount(id, version) ==
  Cardinality({d \in DOMAIN tripInstances : UpdateWhere(tripInstances[d], id, version)})

\* mutant: data: { availableSeats } only, the version is not incremented
UpdateDataKeepsVersion(row, snapshot, n) ==
  [row EXCEPT !.availableSeats = snapshot.availableSeats - n]

\* data: { availableSeats, version } of updateMany, applied to the matched row
UpdateData(row, snapshot, n) ==
  [row EXCEPT !.availableSeats = snapshot.availableSeats - n,
              !.version = snapshot.version + 1]

\* mutant: the check lets a request through that is one seat short
InsufficientSeatsOffByOne(snapshot, n) == snapshot.availableSeats < n - 1

\* if (tripInstance.availableSeats < passengers.length)
InsufficientSeats(snapshot, n) == snapshot.availableSeats < n

\* ---------------------------------------------------------------- handler
\* mutant: the message names the seats requested, not the seats left
InsufficientSeatsMessageRequested(snapshot, n) == OnlySeatsAvailable(n)

\* throw new Error(`Only ${tripInstance.availableSeats} seats available`)
InsufficientSeatsMessage(snapshot, n) == OnlySeatsAvailable(snapshot.availableSeats)

\* mutant: a conflict costs two retries
RetriesDecrementedTwice(left) == left - 2

\* retries--
RetriesAfterConflict(left) == left - 1

\* mutant: the catch retries whatever the error was
ShouldRetryAnyError(message, left) == left > 1

\* catch: if (error.message === 'CONCURRENT_MODIFICATION' && retries > 1)
ShouldRetry(message, left) == message = ConcurrentModification /\ left > 1

\* while (retries > 0 && !booking), evaluated with booking still null
LoopCondition(left) == left > 0

\* outer catch: NextResponse.json({ success: false, error: errorMessage }, 500)
ErrorResponse(message) ==
  [status |-> 500, success |-> FALSE,
   error |-> IF message = "" THEN "Internal server error" ELSE message,
   bookingRef |-> NoRef]

\* if (!booking) return 409 'Unable to complete booking. Please try again.'
ContentionResponse ==
  [status |-> 409, success |-> FALSE, error |-> UnableToComplete, bookingRef |-> NoRef]

\* return NextResponse.json({ success: true, bookingRef })
SuccessResponse(ref) ==
  [status |-> 200, success |-> TRUE, error |-> "", bookingRef |-> ref]

\* the block-scoped variables of the transaction callback go out of scope
ResetLocals(r) ==
  /\ tripInstance' = [tripInstance EXCEPT ![r] = NullTripInstance]
  /\ bookingRef' = [bookingRef EXCEPT ![r] = NoRef]
  /\ attempts' = [attempts EXCEPT ![r] = 0]

\* the loop condition with `left` retries, then if (!booking) after the loop
LoopOrExit(r, left) ==
  IF LoopCondition(left)
  THEN /\ pc' = [pc EXCEPT ![r] = "transaction"]
       /\ retries' = [retries EXCEPT ![r] = left]
       /\ response' = response
  ELSE /\ pc' = [pc EXCEPT ![r] = "done"]
       /\ retries' = [retries EXCEPT ![r] = 0]
       /\ response' = [response EXCEPT ![r] = ContentionResponse]

\* an error thrown inside the transaction callback: the transaction is rolled
\* back, the catch of the retry loop retries or rethrows to the outer catch
Throw(r, message) ==
  /\ tx' = [tx EXCEPT ![r] = NoTx]
  /\ tripInstances' = Rollback(tripInstances, tx[r])
  /\ UNCHANGED << bookings, passengers >>
  /\ thrown' = [thrown EXCEPT ![r] = message]
  /\ ResetLocals(r)
  /\ IF ShouldRetry(message, retries[r])
     THEN /\ retries' = [retries EXCEPT ![r] = RetriesAfterConflict(@)]
          /\ pc' = [pc EXCEPT ![r] = "delay"]
          /\ response' = response
          /\ firstRead' = firstRead
     ELSE /\ retries' = [retries EXCEPT ![r] = 0]
          /\ pc' = [pc EXCEPT ![r] = "done"]
          /\ firstRead' = [firstRead EXCEPT ![r] = NoVersion]
          /\ response' = [response EXCEPT ![r] = ErrorResponse(message)]

\* mutant: the seats are checked before the status
FailedCheckSeatsFirst(row, n) ==
  IF row = NullTripInstance THEN TripNotFound
  ELSE IF InsufficientSeats(row, n) THEN InsufficientSeatsMessage(row, n)
  ELSE IF row.status # "active" THEN TripUnavailable
  ELSE ""

\* the three checks after findUnique, in order: the message of the first one
\* that throws, "" when none does
FailedCheck(row, n) ==
  IF row = NullTripInstance THEN TripNotFound
  ELSE IF row.status # "active" THEN TripUnavailable
  ELSE IF InsufficientSeats(row, n) THEN InsufficientSeatsMessage(row, n)
  ELSE ""

\* POST, up to the retry loop: environment check, validation, let retries = 3
Post(r) ==
  /\ pc[r] = "received"
  /\ UNCHANGED << fixed, store, tripInstance, bookingRef, attempts, tx, randomState,
                  txCount, firstRead, thrown, matches, commits >>
  /\ IF ~databaseUrl
     THEN /\ pc' = [pc EXCEPT ![r] = "done"]
          /\ response' = [response EXCEPT ![r] =
               [status |-> 500, success |-> FALSE,
                error |-> DatabaseConfigurationError, bookingRef |-> NoRef]]
          /\ retries' = retries
     ELSE IF ~SchemaValid(request[r])
     THEN /\ pc' = [pc EXCEPT ![r] = "done"]
          /\ response' = [response EXCEPT ![r] =
               [status |-> 400, success |-> FALSE,
                error |-> InvalidRequest, bookingRef |-> NoRef]]
          /\ retries' = retries
     ELSE LoopOrExit(r, MaxRetries)

\* prisma.$transaction begins; findUnique and the three checks after it
Transaction(r) ==
  /\ pc[r] = "transaction"
  /\ txCount' = [txCount EXCEPT ![r] = @ + 1]
  /\ UNCHANGED << fixed, randomState, matches, commits >>
  /\ LET row == FindTripInstance(request[r].tripInstanceId)
     IN IF FailedCheck(row, request[r].passengers) # ""
        THEN Throw(r, FailedCheck(row, request[r].passengers))
        ELSE /\ tripInstance' = [tripInstance EXCEPT ![r] = row]
             /\ pc' = [pc EXCEPT ![r] = "updateMany"]
             /\ thrown' = [thrown EXCEPT ![r] = ""]
             /\ firstRead' = [firstRead EXCEPT ![r] =
                  IF txCount[r] = 0 THEN row.version ELSE @]
             /\ UNCHANGED << store, retries, bookingRef, attempts, tx, response >>

\* tx.tripInstance.updateMany, the count check and the first generateBookingRef;
\* the statement waits while another transaction holds the row
UpdateMany(r) ==
  /\ pc[r] = "updateMany"
  /\ LockedBy(tripInstance[r].id) = {}
  /\ UNCHANGED << fixed, txCount, commits >>
  /\ IF UpdateManyCount(tripInstance[r].id, tripInstance[r].version) = 0
     THEN /\ Throw(r, ConcurrentModification)
          /\ UNCHANGED << randomState, matches >>
     ELSE /\ tx' = [tx EXCEPT ![r].tripInstance =
               UpdateData(tripInstances[tripInstance[r].id], tripInstance[r],
                          request[r].passengers)]
          /\ matches' = [matches EXCEPT
               ![tripInstance[r].id][tripInstance[r].version] = @ + 1]
          /\ bookingRef' = [bookingRef EXCEPT ![r] =
               generateBookingRef(RandomStream[randomState + 1])]
          /\ randomState' = (randomState + 1) % Len(RandomStream)
          /\ attempts' = [attempts EXCEPT ![r] = 0]
          /\ pc' = [pc EXCEPT ![r] = "findBooking"]
          /\ UNCHANGED << store, retries, tripInstance, response, thrown, firstRead >>

\* one iteration of while (attempts < 10): findUnique, break or regenerate
FindBookingRef(r) ==
  /\ pc[r] = "findBooking"
  /\ UNCHANGED << fixed, store, retries, tripInstance, tx, response, txCount,
                  firstRead, thrown, matches, commits >>
  /\ IF FindBooking(bookingRef[r]) = NullBooking
     THEN /\ pc' = [pc EXCEPT ![r] = "create"]
          /\ UNCHANGED << bookingRef, attempts, randomState >>
     ELSE /\ bookingRef' = [bookingRef EXCEPT ![r] =
               generateBookingRef(RandomStream[randomState + 1])]
          /\ randomState' = (randomState + 1) % Len(RandomStream)
          /\ attempts' = [attempts EXCEPT ![r] = @ + 1]
          /\ pc' = [pc EXCEPT ![r] =
               IF attempts[r] + 1 < MaxRefAttempts THEN "findBooking" ELSE "create"]

\* tx.booking.create with its passengers; the unique index on bookingRef makes
\* the insert wait for an uncommitted row with the same reference and fail on
\* a committed one
CreateBooking(r) ==
  /\ pc[r] = "create"
  /\ \A q \in Reqs \ {r} : tx[q].booking.bookingRef # bookingRef[r]
  /\ UNCHANGED << fixed, randomState, txCount, matches, commits >>
  /\ IF UniqueViolation(bookings, bookingRef[r])
     THEN Throw(r, UniqueConstraintFailed)
     ELSE /\ tx' = [tx EXCEPT ![r].booking =
               [id |-> r, tripInstanceId |-> request[r].tripInstanceId,
                bookingRef |-> bookingRef[r], status |-> "confirmed",
                passengers |-> request[r].passengers]]
          /\ pc' = [pc EXCEPT ![r] = "commit"]
          /\ UNCHANGED << store, locals, response, thrown, firstRead >>

\* the callback returns newBooking: COMMIT, break, the success response
Commit(r) ==
  /\ pc[r] = "commit"
  /\ tripInstances' = CommitTripInstances(tripInstances, tx[r])
  /\ bookings' = CommitBookings(bookings, tx[r])
  /\ passengers' = CommitPassengers(passengers, tx[r])
  /\ commits' = [commits EXCEPT
       ![tx[r].tripInstance.id][tx[r].tripInstance.version - 1] = @ + 1]
  /\ tx' = [tx EXCEPT ![r] = NoTx]
  /\ response' = [response EXCEPT ![r] = SuccessResponse(tx[r].booking.bookingRef)]
  /\ pc' = [pc EXCEPT ![r] = "done"]
  /\ retries' = [retries EXCEPT ![r] = 0]
  /\ ResetLocals(r)
  /\ firstRead' = [firstRead EXCEPT ![r] = NoVersion]
  /\ UNCHANGED << fixed, randomState, txCount, thrown, matches >>

\* await new Promise((resolve) => setTimeout(resolve, 100)); continue
Delay(r) ==
  /\ pc[r] = "delay"
  /\ LoopOrExit(r, retries[r])
  /\ UNCHANGED << fixed, store, tripInstance, bookingRef, attempts, tx, randomState,
                  txCount, firstRead, thrown, matches, commits >>

\* a store call of the open transaction rejects (connection lost, timeout)
StorageFailure(r) ==
  /\ pc[r] \in {"updateMany", "findBooking", "create", "commit"}
  /\ UNCHANGED << fixed, randomState, txCount, matches, commits >>
  /\ Throw(r, StorageUnreachable)

\* ------------------------------------------------------------------ search
\* the route both departures belong to (table Route)
Route == [origin |-> "Oakland", destination |-> "Los Angeles"]

\* contains with mode 'insensitive': the strings the model sends that are
\* found in `field` when case is ignored
InsensitiveContains(field, q) ==
  \/ field = "Oakland" /\ q \in {"Oakland", "oak"}
  \/ field = "Los Angeles" /\ q \in {"Los Angeles", "angeles"}

\* TripInstance.date, in hours since the epoch: a midnight, as seed.ts sets it
TripInstanceDate(d) == 48

\* new Date(date).getTime() for the date strings the model sends, in hours
\* since the epoch; -1 stands for NaN
ParseDate(date) ==
  IF date = "1970-01-03" THEN 48
  ELSE IF date = "1970-01-03T17:00" THEN 65
  ELSE IF date = "1970-01-04" THEN 72
  ELSE -1

\* startOfDay and endOfDay of date-fns, in hours
startOfDay(t) == (t \div 24) * 24
endOfDay(t) == startOfDay(t) + 23

\* searchSchema.safeParse(body).success
SearchSchemaValid(body) ==
  /\ body.origin # ""
  /\ body.destination # ""
  /\ ParseDate(body.date) # -1

\* where: { origin: { contains }, destination: { contains } } of route.findMany
RouteWhere(route, body) ==
  /\ InsensitiveContains(route.origin, body.origin)
  /\ InsensitiveContains(route.destination, body.destination)

\* mutant: the filter of tripInstances has no availableSeats: { gt: 0 }
TripInstanceWhereAnySeats(row, dayStart, dayEnd) ==
  /\ TripInstanceDate(row.id) >= dayStart
  /\ TripInstanceDate(row.id) <= dayEnd
  /\ row.status = "active"

\* where: { date: { gte, lte }, status: 'active', availableSeats: { gt: 0 } }
TripInstanceWhere(row, dayStart, dayEnd) ==
  /\ TripInstanceDate(row.id) >= dayStart
  /\ TripInstanceDate(row.id) <= dayEnd
  /\ row.status = "active"
  /\ row.availableSeats > 0

\* the results array: one entry per TripInstance that route.findMany returns,
\* read from the committed rows
SearchResults(body) ==
  IF RouteWhere(Route, body)
  THEN {[tripInstanceId |-> d, availableSeats |-> tripInstances[d].availableSeats] :
          d \in {x \in DOMAIN tripInstances :
                   TripInstanceWhere(tripInstances[x],
                                     startOfDay(ParseDate(body.date)),
                                     endOfDay(ParseDate(body.date)))}}
  ELSE {}

NoSearch == [status |-> 0, error |-> "", results |-> {}]

\* the request bodies the model sends to the search endpoint
SearchBodies ==
  {[origin |-> "oak", destination |-> "angeles", date |-> "1970-01-03"],
   [origin |-> "Oakland", destination |-> "Los Angeles", date |-> "1970-01-03T17:00"],
   [origin |-> "oak", destination |-> "angeles", date |-> "1970-01-04"],
   [origin |-> "Reno", destination |-> "angeles", date |-> "1970-01-03"],
   [origin |-> "oak", destination |-> "angeles", date |-> "tomorrow"],
   [origin |-> "", destination |-> "angeles", date |-> "1970-01-03"]}

\* POST /api/search with `body`; `up` tells whether the store answers
Search(body, up) ==
  /\ search' =
       IF ~databaseUrl
       THEN [status |-> 500, error |-> DatabaseConfigurationError, results |-> {}]
       ELSE IF ~SearchSchemaValid(body)
       THEN [status |-> 400, error |-> InvalidRequest, results |-> {}]
       ELSE IF ~up
       THEN [status |-> 500, error |-> "Internal server error", results |-> {}]
       ELSE [status |-> 200, error |-> "", results |-> SearchResults(body)]
  /\ searchCalls' = 1 - searchCalls
  /\ UNCHANGED << databaseUrl, seeded, request, store, locals, pc, tx, response,
                  randomState, txCount, firstRead, thrown, matches, commits >>

\* ------------------------------------------------------------------- Init
\* the request bodies the model sends, in a fixed order
Bodies ==
  << [tripInstanceId |-> "d1", passengers |-> 0],
     [tripInstanceId |-> "d1", passengers |-> 1],
     [tripInstanceId |-> "d1", passengers |-> 2],
     [tripInstanceId |-> "d2", passengers |-> 1],
     [tripInstanceId |-> MissingId, passengers |-> 1] >>

ContendedBodies == {b \in Range(Bodies) : b.tripInstanceId = "d1" /\ b.passengers >= 1}

Body(k) ==
  [tripInstanceId |-> Bodies[k].tripInstanceId, passengers |-> Bodies[k].passengers,
   contactEmail |-> "pat@example.com", contactPhone |-> "555-0100"]

\* requests are interchangeable: their bodies are drawn in non-decreasing order;
\* any number of them book departure d1, at most one sends each other body
Workloads ==
  {w \in [Reqs -> 1..Len(Bodies)] :
     \A r \in Reqs :
       r > 1 => \/ w[r - 1] < w[r]
                \/ w[r - 1] = w[r] /\ Bodies[w[r]] \in ContendedBodies}

InitHandlers ==
  /\ pc = [r \in Reqs |-> "received"]
  /\ retries = [r \in Reqs |-> 0]
  /\ tripInstance = [r \in Reqs |-> NullTripInstance]
  /\ bookingRef = [r \in Reqs |-> NoRef]
  /\ attempts = [r \in Reqs |-> 0]
  /\ tx = [r \in Reqs |-> NoTx]
  /\ response = [r \in Reqs |-> NoResponse]
  /\ search = NoSearch
  /\ searchCalls = 0
  /\ randomState = 0
  /\ txCount = [r \in Reqs |-> 0]
  /\ firstRead = [r \in Reqs |-> NoVersion]
  /\ thrown = [r \in Reqs |-> ""]
  /\ matches = [d \in TripInstanceIds |-> [v \in Versions |-> 0]]
  /\ commits = [d \in TripInstanceIds |-> [v \in Versions |-> 0]]

\* a store with no booking yet: every seat of a departure is available
InitStore(rows) ==
  /\ tripInstances = rows
  /\ seeded = rows
  /\ bookings = {}
  /\ passengers = {}

Row(d, seats, version, status) ==
  [id |-> d, availableSeats |-> seats, version |-> version, status |-> status]

\* the status of d2 is drawn when a request names d2: a row that no request
\* reads behaves the same whatever its status
Init ==
  /\ databaseUrl \in BOOLEAN
  /\ \E s \in 1..MaxSeats, st \in Statuses :
       InitStore([d \in TripInstanceIds |->
                    IF d = "d1" THEN Row(d, s, 0, "active") ELSE Row(d, 1, 0, st)])
  /\ \E w \in Workloads : request = [r \in Reqs |-> Body(w[r])]
  /\ tripInstances["d2"].status = "active" \/ \E r \in Reqs : request[r].tripInstanceId = "d2"
  /\ InitHandlers

Next ==
  \E r \in Reqs :
    \/ Post(r)
    \/ Transaction(r)
    \/ UpdateMany(r)
    \/ FindBookingRef(r)
    \/ CreateBooking(r)
    \/ Commit(r)
    \/ Delay(r)
    \/ StorageFailure(r)

Spec == Init /\ [][Next]_vars

\* the event loop runs every continuation that is ready and the store answers
\* every call, so the system does not stop while a step is possible
FairSpec == Spec /\ WF_vars(Next)

\* Two requests that each fit alone and do not fit together, on departure d1
\* with S seats at version V; the other requests name a departure that does
\* not exist.
InitTwo ==
  /\ databaseUrl = TRUE
  /\ \E s \in 1..MaxSeats, v \in {0, 3} :
       InitStore([d \in TripInstanceIds |->
                    IF d = "d1" THEN Row(d, s, v, "active") ELSE Row(d, 1, 0, "active")])
  /\ \E n1, n2 \in 1..MaxSeats :
       /\ n1 <= seeded["d1"].availableSeats
       /\ n2 <= seeded["d1"].availableSeats
       /\ n1 + n2 > seeded["d1"].availableSeats
       /\ request =
            [r \in Reqs |->
               [tripInstanceId |-> IF r <= 2 THEN "d1" ELSE MissingId,
                passengers |-> IF r = 1 THEN n1 ELSE IF r = 2 THEN n2 ELSE 1,
                contactEmail |-> "pat@example.com", contactPhone |-> "555-0100"]]
  /\ InitHandlers

SpecTwo == InitTwo /\ [][Next]_vars

\* Departure d1 with 5 seats at version 3 and three requests of 2 seats each;
\* the other requests name a departure that does not exist.
InitThree ==
  /\ databaseUrl = TRUE
  /\ InitStore([d \in TripInstanceIds |->
                  IF d = "d1" THEN Row(d, 5, 3, "active") ELSE Row(d, 1, 0, "active")])
  /\ request =
       [r \in Reqs |->
          [tripInstanceId |-> IF r <= 3 THEN "d1" ELSE MissingId,
           passengers |-> IF r <= 3 THEN 2 ELSE 1,
           contactEmail |-> "pat@example.com", contactPhone |-> "555-0100"]]
  /\ InitHandlers

SpecThree == InitThree /\ [][Next]_vars

\* ----------------------------------------------------------------- claims
RECURSIVE SumPassengers(_)
SumPassengers(rows) ==
  IF rows = {} THEN 0
  ELSE LET b == CHOOSE x \in rows : TRUE
       IN b.passengers + SumPassengers(rows \ {b})

ConfirmedBookings(d) ==
  {b \in bookings : b.tripInstanceId = d /\ b.status = "confirmed"}

Capacity(d) == seeded[d].availableSeats

Responded(r) == pc[r] = "done" /\ response[r] # NoResponse

Succeeded(r) == Responded(r) /\ response[r].status = 200

\* the request ended on an error raised by the store, not by the handler
StorageError(r) ==
  Responded(r) /\ response[r].error \in {StorageUnreachable, UniqueConstraintFailed}

\* the request ended on the insufficient-seats check, with k seats remaining
InsufficientCapacity(r, k) ==
  Responded(r) /\ response[r].success = FALSE /\ response[r].error = OnlySeatsAvailable(k)

\* C1: the passenger counts of the committed confirmed bookings of a departure
\* never add up to more than the seats it had before any booking.
C1_CapacityInvariant ==
  \A d \in TripInstanceIds : SumPassengers(ConfirmedBookings(d)) <= Capacity(d)

\* a departure is sold out and a request that lost the race to a concurrent
\* booking was turned away on its retry
C1_Witness ==
  \E d \in TripInstanceIds, r \in Reqs :
    /\ SumPassengers(ConfirmedBookings(d)) = Capacity(d)
    /\ request[r].tripInstanceId = d
    /\ txCount[r] >= 2
    /\ InsufficientCapacity(r, 0)

\* C2: every departure has 0 <= availableSeats <= capacity, in its committed
\* row and in every uncommitted update of it.
C2_SeatsInRange ==
  /\ \A d \in TripInstanceIds :
       /\ tripInstances[d].availableSeats >= 0
       /\ tripInstances[d].availableSeats <= Capacity(d)
  /\ \A r \in Reqs :
       tx[r].tripInstance # NullTripInstance =>
         /\ tx[r].tripInstance.availableSeats >= 0
         /\ tx[r].tripInstance.availableSeats <= Capacity(tx[r].tripInstance.id)

\* the last seats of a departure were booked while another request for it,
\* larger than what is left, is about to read the row
C2_Witness ==
  \E d \in TripInstanceIds, r \in Reqs :
    /\ tripInstances[d].version > seeded[d].version
    /\ tripInstances[d].availableSeats < request[r].passengers
    /\ request[r].tripInstanceId = d
    /\ pc[r] = "transaction"

\* C3 as stated: of the attempts that read the same version of a departure at
\* most one has its conditional write match a row.
C3_AtMostOneWriteMatches ==
  \A d \in TripInstanceIds, v \in Versions : matches[d][v] <= 1

\* the uncommitted updates of row d made by attempts that read version v
PendingWrites(d, v) ==
  {r \in Reqs : tx[r].tripInstance.id = d /\ tx[r].tripInstance.version = v + 1}

\* C3 amended: of the attempts that read the same version of a departure at
\* most one commits its conditional write and no two hold a matched write at
\* the same time; once one has committed, the write of every other one
\* affects zero rows.
C3_AtMostOneWriteCommits ==
  \A d \in TripInstanceIds, v \in Versions :
    /\ commits[d][v] + Cardinality(PendingWrites(d, v)) <= 1
    /\ \A r \in Reqs :
         (/\ pc[r] = "updateMany"
          /\ tripInstance[r].id = d
          /\ tripInstance[r].version = v
          /\ commits[d][v] = 1) => UpdateManyCount(d, v) = 0

\* an attempt is about to write with the version another attempt has
\* committed its write on
C3_Witness ==
  \E r \in Reqs :
    /\ pc[r] = "updateMany"
    /\ commits[tripInstance[r].id][tripInstance[r].version] = 1

\* the committed store changes in a step either not at all or by one whole
\* booking of request r: its row, its passengers, the seats and the version
WholeBooking(r) ==
  LET d == request[r].tripInstanceId
      n == request[r].passengers
      b == [id |-> r, tripInstanceId |-> d, bookingRef |-> response'[r].bookingRef,
            status |-> "confirmed", passengers |-> n]
  IN /\ d \in TripInstanceIds
     /\ b \notin bookings
     /\ bookings' = bookings \cup {b}
     /\ passengers' = passengers \cup {[bookingId |-> r, index |-> i] : i \in 1..n}
     /\ Cardinality(passengers') = Cardinality(passengers) + n
     /\ tripInstances' =
          [tripInstances EXCEPT ![d].availableSeats = @ - n, ![d].version = @ + 1]

\* the open transaction of request r, which holds a matched seat update, ends
\* without a booking
FailsAfterWrite(r) ==
  /\ tx[r].tripInstance # NullTripInstance
  /\ tx'[r] = NoTx
  /\ response'[r].status # 200

C4_Step ==
  /\ \/ UNCHANGED store
     \/ \E r \in Reqs : WholeBooking(r)
  /\ \A r \in Reqs :
       FailsAfterWrite(r) =>
         /\ UNCHANGED store
         /\ tripInstances'[tripInstance[r].id].availableSeats =
              tripInstance[r].availableSeats
         /\ tripInstances'[tripInstance[r].id].version = tripInstance[r].version

\* C4: a booking attempt is all-or-nothing: every step leaves the committed
\* store unchanged or adds one whole booking (seat decrement, version
\* increment, booking row, all passenger rows); an attempt that fails after
\* its conditional write leaves seats and version as it read them.
C4_AllOrNothing == [][C4_Step]_vars

\* a conditional write that matched was rolled back: no transaction holds the
\* row and fewer writes were committed than matched
C4_Witness ==
  \E d \in TripInstanceIds, v \in Versions :
    /\ matches[d][v] > commits[d][v]
    /\ LockedBy(d) = {}

C5_Step ==
  \A r \in Reqs :
    txCount'[r] # txCount[r] =>
      /\ txCount'[r] = txCount[r] + 1
      /\ txCount[r] = 0 \/ thrown[r] = ConcurrentModification

\* C5: a request runs at most 3 transaction attempts, starts a further one
\* only after a version conflict, and ends with a response.
C5_BoundedRetry ==
  /\ [](\A r \in Reqs : txCount[r] <= 3)
  /\ [][C5_Step]_vars
  /\ <>(\A r \in Reqs : Responded(r))

\* a request is in its third attempt
C5_Witness == \E r \in Reqs : txCount[r] = 3 /\ pc[r] = "updateMany"

\* every attempt of the request ended in a version conflict, up to the limit
Exhausted(r) ==
  pc[r] = "done" /\ txCount[r] = MaxRetries /\ thrown[r] = ConcurrentModification

\* C6: a request whose attempts all end in a version conflict until the
\* attempt limit is reached ends with the Contention outcome, the 409
\* response 'Unable to complete booking. Please try again.'
C6_ExhaustionIsContention ==
  \A r \in Reqs : Exhausted(r) => response[r] = ContentionResponse

\* a request ended with the 500 response of the outer catch after its third
\* version conflict
C6_Witness ==
  \E r \in Reqs :
    Exhausted(r) /\ response[r] = ErrorResponse(ConcurrentModification)

\* C7: no response carries the internal signal CONCURRENT_MODIFICATION.
C7_ConflictNeverSurfaced ==
  \A r \in Reqs : response[r].error # ConcurrentModification

\* the response body of a request names the internal signal
C7_Witness ==
  \E r \in Reqs :
    /\ pc[r] = "done"
    /\ response[r].status = 500
    /\ response[r].error = ConcurrentModification

\* C8: a failure other than a version conflict ends the request on the attempt
\* in which it occurs: the request is done, with a response, and is not waiting
\* for or running another attempt.
C8_NoRetryOnOtherFailure ==
  \A r \in Reqs :
    thrown[r] \notin {"", ConcurrentModification} =>
      /\ pc[r] = "done"
      /\ response[r].status = 500
      /\ response[r].error = thrown[r]

\* requests ended on a missing departure, on a store error in a second attempt
\* (with a retry left) and on insufficient seats, and stayed ended
C8_Witness ==
  /\ \E r \in Reqs : pc[r] = "done" /\ txCount[r] = 1
                       /\ thrown[r] \in {TripNotFound, TripUnavailable}
  /\ \E r \in Reqs : pc[r] = "done" /\ thrown[r] = StorageUnreachable /\ txCount[r] = 2
  /\ \E r \in Reqs, k \in 0..MaxSeats :
       pc[r] = "done" /\ thrown[r] = OnlySeatsAvailable(k) /\ txCount[r] = 1

\* C9: of two requests that each fit alone and not together, never both are
\* committed, and once both have ended without a store error exactly one is
\* committed and the other ended with InsufficientCapacity; version = V + 1 and
\* availableSeats = S minus the winner's passengers, not negative.
C9_ExactlyOneOfTwo ==
  /\ Cardinality(ConfirmedBookings("d1")) <= 1
  /\ (Responded(1) /\ Responded(2) /\ ~StorageError(1) /\ ~StorageError(2)) =>
      \E w, l \in {1, 2} :
        /\ w # l
        /\ Succeeded(w)
        /\ ConfirmedBookings("d1") =
             {[id |-> w, tripInstanceId |-> "d1", bookingRef |-> response[w].bookingRef,
               status |-> "confirmed", passengers |-> request[w].passengers]}
        /\ InsufficientCapacity(l, Capacity("d1") - request[w].passengers)
        /\ tripInstances["d1"].version = seeded["d1"].version + 1
        /\ tripInstances["d1"].availableSeats = Capacity("d1") - request[w].passengers
        /\ tripInstances["d1"].availableSeats >= 0

\* both read the same version: the loser met a version conflict, retried and
\* was turned away
C9_Witness ==
  /\ Succeeded(1)
  /\ txCount[2] = 2
  /\ InsufficientCapacity(2, Capacity("d1") - request[1].passengers)

\* C10: with 5 seats at version 3 and three requests of 2 seats, never more
\* than two are committed, and once all three have ended without a store error
\* two are committed and the third ended with InsufficientCapacity.
C10_TwoOfThree ==
  /\ Cardinality(ConfirmedBookings("d1")) <= 2
  /\ (\A r \in 1..3 : Responded(r) /\ ~StorageError(r)) =>
       \E l \in 1..3 :
         /\ InsufficientCapacity(l, 1)
         /\ \A w \in (1..3) \ {l} : Succeeded(w)
         /\ tripInstances["d1"].availableSeats = 1

\* the third request met two version conflicts before it was turned away
C10_Witness ==
  /\ \A r \in 1..2 : Succeeded(r)
  /\ txCount[3] = 3
  /\ InsufficientCapacity(3, 1)

\* Departure d1 is sold out (availableSeats 0) in any lifecycle status and is
\* booked by the first and the last request; the requests between them contend
\* for the one seat of d2.
InitSoldOut ==
  /\ databaseUrl = TRUE
  /\ \E st \in Statuses :
       InitStore([d \in TripInstanceIds |->
                    IF d = "d1" THEN Row(d, 0, 0, st) ELSE Row(d, 1, 0, "active")])
  /\ \E n \in 1..MaxSeats :
       request =
         [r \in Reqs |->
            [tripInstanceId |-> IF r = 1 \/ r = NReq THEN "d1" ELSE "d2",
             passengers |-> IF r = 1 THEN n ELSE 1,
             contactEmail |-> "pat@example.com", contactPhone |-> "555-0100"]]
  /\ InitHandlers

SpecSoldOut == InitSoldOut /\ [][Next]_vars

\* the requests that name departure d
RequestsFor(d) == {r \in Reqs : request[r].tripInstanceId = d}

\* the request ended on the status check
Unavailable(r) ==
  Responded(r) /\ response[r].success = FALSE /\ response[r].error = TripUnavailable

\* nothing of departure d was committed: no booking, the row as seeded
NothingCommitted(d) ==
  /\ {b \in bookings : b.tripInstanceId = d} = {}
  /\ {p \in passengers : request[p.bookingId].tripInstanceId = d} = {}
  /\ tripInstances[d] = seeded[d]

\* C11 as stated: a request for a departure with availableSeats 0 ends with
\* InsufficientCapacity whatever the status of the departure.
C11_SoldOutAlwaysInsufficient ==
  \A r \in RequestsFor("d1") : pc[r] = "done" => InsufficientCapacity(r, 0)

\* C11 amended: a request for an active departure with availableSeats 0 ends
\* with InsufficientCapacity (0 remaining) for every positive passenger count,
\* one for an inactive departure ends with Unavailable; both after a single
\* attempt, and nothing of the departure is ever committed.
C11_SoldOutFails ==
  /\ NothingCommitted("d1")
  /\ \A r \in RequestsFor("d1") :
       /\ txCount[r] <= 1
       /\ tx[r] = NoTx
       /\ pc[r] = "done" =>
            IF seeded["d1"].status = "active"
            THEN InsufficientCapacity(r, 0)
            ELSE Unavailable(r)

\* a request for more than one seat was turned away from the sold-out active
\* departure while a booking on the other departure was committed
C11_Witness ==
  /\ seeded["d1"].status = "active"
  /\ request[1].passengers > 1
  /\ InsufficientCapacity(1, 0)
  /\ bookings # {}

\* C12: a nonexistent departure is reported with status 404, an inactive
\* departure or insufficient seats with status 409.
C12_BusinessFailureStatus ==
  \A r \in Reqs :
    pc[r] = "done" =>
      /\ thrown[r] = TripNotFound => response[r].status = 404
      /\ thrown[r] = TripUnavailable => response[r].status = 409
      /\ (\E k \in 0..MaxSeats : thrown[r] = OnlySeatsAvailable(k)) =>
           response[r].status = 409

\* requests ended on a missing departure and on insufficient seats, both with
\* the status of an internal error
C12_Witness ==
  /\ \E r \in Reqs : pc[r] = "done" /\ thrown[r] = TripNotFound
                       /\ response[r].status = 500
  /\ \E r \in Reqs, k \in 0..MaxSeats :
       pc[r] = "done" /\ thrown[r] = OnlySeatsAvailable(k) /\ response[r].status = 500

\* the messages raised by the store, not by the handler
StorageMessages == {StorageUnreachable, UniqueConstraintFailed}

\* C13: no response carries a raw error message of the store.
C13_NoRawStorageError ==
  \A r \in Reqs : response[r].error \notin StorageMessages

\* the store rejected a call of an open transaction and its message is the
\* error of the response
C13_Witness ==
  \E r \in Reqs :
    /\ pc[r] = "done"
    /\ thrown[r] \in StorageMessages
    /\ response[r] = ErrorResponse(thrown[r])

\* C14: no two committed bookings share a bookingRef.
C14_UniqueBookingRef ==
  \A b1, b2 \in bookings : b1.bookingRef = b2.bookingRef => b1 = b2

\* a request found its candidate unused, left the reference loop and is about
\* to insert it, while a booking of another departure was committed with the
\* same reference in between
C14_Witness ==
  \E r \in Reqs, b \in bookings :
    /\ pc[r] = "create"
    /\ attempts[r] < MaxRefAttempts
    /\ b.bookingRef = bookingRef[r]
    /\ b.tripInstanceId # request[r].tripInstanceId

C15_Step ==
  \A r \in Reqs, k \in 0..MaxSeats :
    (response[r] = NoResponse /\ response'[r].error = OnlySeatsAvailable(k)) =>
      /\ request[r].tripInstanceId \in TripInstanceIds
      /\ tripInstances[request[r].tripInstanceId].availableSeats = k
      /\ k < request[r].passengers
      /\ response'[r].success = FALSE

\* C15: a response for insufficient seats carries the remaining seat count: the
\* availableSeats stored for the departure when the failing attempt read it, a
\* value smaller than the requested passenger count.
C15_RemainingSeatsReported == [][C15_Step]_vars

\* a request for 2 seats lost the race for the row, retried and was told that
\* 1 seat is left, which is what the row holds
C15_Witness ==
  \E r \in Reqs :
    /\ InsufficientCapacity(r, 1)
    /\ txCount[r] = 2
    /\ request[r].passengers = 2
    /\ tripInstances[request[r].tripInstanceId].availableSeats = 1

\* bodies that bookingSchema rejects: no passenger, no departure id, a contact
\* email that is no email address, no contact phone
InvalidBodies ==
  {[tripInstanceId |-> "d1", passengers |-> 0,
    contactEmail |-> "pat@example.com", contactPhone |-> "555-0100"],
   [tripInstanceId |-> "", passengers |-> 1,
    contactEmail |-> "pat@example.com", contactPhone |-> "555-0100"],
   [tripInstanceId |-> "d1", passengers |-> 1,
    contactEmail |-> "pat.example.com", contactPhone |-> "555-0100"],
   [tripInstanceId |-> "d1", passengers |-> 1,
    contactEmail |-> "pat@example.com", contactPhone |-> ""]}

\* Two valid requests contend for departure d1; every other request sends a
\* body the schema rejects.
InitInvalid ==
  /\ databaseUrl = TRUE
  /\ \E s \in 1..MaxSeats :
       InitStore([d \in TripInstanceIds |->
                    IF d = "d1" THEN Row(d, s, 0, "active") ELSE Row(d, 1, 0, "active")])
  /\ \E bad \in [Reqs -> InvalidBodies] :
       request = [r \in Reqs |-> IF r <= 2 THEN Body(2) ELSE bad[r]]
  /\ InitHandlers

SpecInvalid == InitInvalid /\ [][Next]_vars

InvalidBody(r) == request[r] \in InvalidBodies

BadRequestResponse ==
  [status |-> 400, success |-> FALSE, error |-> InvalidRequest, bookingRef |-> NoRef]

C17_Step ==
  \A r \in Reqs : (InvalidBody(r) /\ pc'[r] # pc[r]) => UNCHANGED store

InitSearch ==
  /\ databaseUrl \in BOOLEAN
  /\ \E s \in 1..MaxSeats, st \in Statuses :
       InitStore([d \in TripInstanceIds |->
                    IF d = "d1" THEN Row(d, s, 0, "active") ELSE Row(d, 1, 0, st)])
  /\ request = [r \in Reqs |-> IF r <= 2 THEN Body(2) ELSE IF r = 3 THEN Body(4)
                                                      ELSE Body(5)]
  /\ InitHandlers

NextSearch ==
  \/ Next
  \/ \E body \in SearchBodies, up \in BOOLEAN : Search(body, up)

SpecSearch == InitSearch /\ [][NextSearch]_vars

\* the departures named in the results of the last search
Found == {x.tripInstanceId : x \in search.results}

C18_Step ==
  searchCalls' # searchCalls =>
    /\ UNCHANGED store
    /\ \A x \in search'.results :
         /\ tripInstances[x.tripInstanceId].status = "active"
         /\ tripInstances[x.tripInstanceId].availableSeats = x.availableSeats
         /\ x.availableSeats > 0
    /\ \A d \in TripInstanceIds :
         (tripInstances[d].status # "active" \/ tripInstances[d].availableSeats = 0)
           => d \notin {x.tripInstanceId : x \in search'.results}

\* C18: every departure in the results of a search is active and has
\* availableSeats > 0 in the committed store at the time of the query; a
\* sold-out or inactive departure is never in the results, and a search leaves
\* the store unchanged.
C18_SearchOnlyBookable ==
  /\ [](\A x \in search.results :
          x.availableSeats > 0 /\ seeded[x.tripInstanceId].status = "active")
  /\ [][C18_Step]_vars

\* a search on the day of both departures found d2 and not d1, which is sold
\* out
C18_Witness ==
  /\ search.status = 200
  /\ Found = {"d2"}
  /\ tripInstances["d1"].availableSeats = 0
  /\ tripInstances["d1"].status = "active"

\* outcomes of Math.random(), as multiples of 1 / RandomScale: the smallest,
\* one in the middle and the largest
RandomOutcomes == {0, 33, RandomScale - 1}

\* References are generated for the first request from any six outcomes of
\* Math.random().
InitRef ==
  /\ databaseUrl = TRUE
  /\ InitStore([d \in TripInstanceIds |-> Row(d, 1, 0, "active")])
  /\ request = [r \in Reqs |-> Body(2)]
  /\ InitHandlers

\* let bookingRef = generateBookingRef()
GenerateRef(r, rnd) ==
  /\ bookingRef' = [bookingRef EXCEPT ![r] = generateBookingRef(rnd)]
  /\ UNCHANGED << fixed, store, retries, tripInstance, attempts, pc, tx, response,
                  randomState, txCount, firstRead, thrown, matches, commits >>

NextRef == \E rnd \in [1..RefLength -> RandomOutcomes] : GenerateRef(1, rnd)

SpecRef == InitRef /\ [][NextRef]_vars

\* C19: every generated reference has exactly 6 characters, each one a symbol
\* of ABCDEFGHJKLMNPQRSTUVWXYZ23456789, so none of them is 0, O, 1 or I.
C19_RefFormat ==
  \A r \in Reqs :
    bookingRef[r] # NoRef =>
      /\ Len(bookingRef[r]) = 6
      /\ \A i \in 1..Len(bookingRef[r]) :
           /\ bookingRef[r][i] \in
                {"A", "B", "C", "D", "E", "F", "G", "H", "J", "K", "L", "M", "N", "P",
                 "Q", "R", "S", "T", "U", "V", "W", "X", "Y", "Z", "2", "3", "4", "5",
                 "6", "7", "8", "9"}
           /\ bookingRef[r][i] \notin {"0", "O", "1", "I"}

\* a reference that starts with the first symbol of the alphabet and ends with
\* the last one
C19_Witness ==
  \E r \in Reqs :
    /\ bookingRef[r] # NoRef
    /\ bookingRef[r][1] = "A"
    /\ bookingRef[r][6] = "9"

\* request r gets its success response in this step
Succeeds(r) == response[r] = NoResponse /\ response'[r].status = 200

\* request r makes its conditional write in this step
Writes(r) == tx[r].tripInstance = NullTripInstance /\ tx'[r].tripInstance # NullTripInstance

C20_Step ==
  /\ \A d \in TripInstanceIds :
       /\ tripInstances'[d].version >= tripInstances[d].version
       /\ tripInstances'[d] # tripInstances[d] =>
            \E r \in RequestsFor(d) : Succeeds(r)
  /\ \A r \in Reqs :
       Succeeds(r) =>
         /\ tripInstances'[request[r].tripInstanceId].availableSeats =
              tripInstances[request[r].tripInstanceId].availableSeats - request[r].passengers
         /\ tripInstances'[request[r].tripInstanceId].version =
              tripInstances[request[r].tripInstanceId].version + 1
  /\ \A r \in Reqs :
       Writes(r) =>
         /\ tx'[r].tripInstance.availableSeats =
              tripInstances[request[r].tripInstanceId].availableSeats - request[r].passengers
         /\ tx'[r].tripInstance.version =
              tripInstances[request[r].tripInstanceId].version + 1

\* C20: every successful booking attempt decreases availableSeats by exactly the
\* passenger count of its request and increases version by exactly 1, relative
\* to the stored row, both when it writes and when it commits; the row changes
\* in no other step and its version never decreases.
C20_ExactDecrementAndVersion == [][C20_Step]_vars

\* two bookings of one departure, of 1 and of 2 seats, were committed
C20_Witness ==
  \E d \in TripInstanceIds :
    /\ tripInstances[d].version = seeded[d].version + 2
    /\ tripInstances[d].availableSeats = seeded[d].availableSeats - 3

\* Departure d1 is sold out in any lifecycle status and booked by the first
\* request; the next two requests contend for the one seat of d2; the others
\* name a departure that does not exist.
InitChecks ==
  /\ databaseUrl = TRUE
  /\ \E st \in Statuses :
       InitStore([d \in TripInstanceIds |->
                    IF d = "d1" THEN Row(d, 0, 0, st) ELSE Row(d, 1, 0, "active")])
  /\ \E n \in 1..MaxSeats :
       request =
         [r \in Reqs |->
            [tripInstanceId |-> IF r = 1 THEN "d1" ELSE IF r <= 3 THEN "d2" ELSE MissingId,
             passengers |-> IF r = 1 THEN n ELSE 1,
             contactEmail |-> "pat@example.com", contactPhone |-> "555-0100"]]
  /\ InitHandlers

SpecChecks == InitChecks /\ [][Next]_vars

\* request r runs the read and the checks of an attempt in this step
Reads(r) == txCount'[r] = txCount[r] + 1

\* request r ends in this step with `message` and leaves the store unchanged
EndsWith(r, message) ==
  /\ pc'[r] = "done"
  /\ response'[r] = ErrorResponse(message)
  /\ tx'[r] = NoTx
  /\ UNCHANGED store

C21_Step ==
  \A r \in Reqs :
    /\ Reads(r) =>
         LET d == request[r].tripInstanceId
         IN IF d \notin TripInstanceIds
            THEN EndsWith(r, TripNotFound)
            ELSE IF tripInstances[d].status # "active"
            THEN EndsWith(r, TripUnavailable)
            ELSE IF tripInstances[d].availableSeats < request[r].passengers
            THEN EndsWith(r, OnlySeatsAvailable(tripInstances[d].availableSeats))
            ELSE pc'[r] = "updateMany" /\ tripInstance'[r] = tripInstances[d]
    /\ Writes(r) =>
         /\ pc[r] = "updateMany"
         /\ tripInstance[r].id = request[r].tripInstanceId
         /\ tripInstance[r].status = "active"
         /\ tripInstance[r].availableSeats >= request[r].passengers

\* C21: an attempt checks NotFound, then Unavailable, then InsufficientCapacity;
\* the first check that fails decides the outcome and ends the request with
\* nothing written, and the conditional write is made only after all three
\* passed on the row the attempt read.
C21_CheckOrder == [][C21_Step]_vars

\* requests ended with Unavailable on a departure that is inactive and sold
\* out, and with NotFound, while another one made its conditional write
C21_Witness ==
  /\ seeded["d1"].status # "active"
  /\ Unavailable(1)
  /\ \E r \in Reqs : pc[r] = "done" /\ thrown[r] = TripNotFound
  /\ \E r \in Reqs : tx[r].tripInstance # NullTripInstance

\* request r is between two attempts: in the delay or about to read
BetweenAttempts(r) == pc[r] \in {"delay", "transaction"}

\* request r holds no open transaction, no row lock and no snapshot
HoldsNothing(r) ==
  /\ tx[r] = NoTx
  /\ \A d \in TripInstanceIds : r \notin LockedBy(d)
  /\ tripInstance[r] = NullTripInstance

C22_Step ==
  \A r \in Reqs :
    \* the snapshot of an attempt is the row committed when the attempt reads
    /\ (tripInstance'[r] # tripInstance[r] /\ tripInstance'[r] # NullTripInstance) =>
         /\ Reads(r)
         /\ tripInstance'[r] = tripInstances[request[r].tripInstanceId]
    \* the conditional write is computed from the snapshot of this attempt
    /\ Writes(r) =>
         /\ tripInstance[r] # NullTripInstance
         /\ tx'[r].tripInstance.version = tripInstance[r].version + 1
         /\ tx'[r].tripInstance.availableSeats =
              tripInstance[r].availableSeats - request[r].passengers
    \* the delay follows the end of the conflicting transaction and is followed
    \* by the read of the next attempt
    /\ (pc[r] # "delay" /\ pc'[r] = "delay") =>
         pc[r] = "updateMany" /\ thrown'[r] = ConcurrentModification
    /\ (pc[r] = "delay" /\ pc'[r] # "delay") => pc'[r] = "transaction"

\* C22: every attempt, retries included, decides from the row it read itself
\* when it began, the row committed at that moment; the delay is entered only
\* from a conflicting conditional write whose transaction has ended and is
\* left only for the next attempt's read; during the delay and before the
\* read the request holds no transaction, no row lock and no snapshot.
C22_FreshReadPerAttempt ==
  /\ [][C22_Step]_vars
  /\ [](\A r \in Reqs : BetweenAttempts(r) => HoldsNothing(r))

\* a retry has read a row that another request changed after the first read
C22_Witness ==
  \E r \in Reqs :
    /\ txCount[r] >= 2
    /\ pc[r] = "updateMany"
    /\ tripInstance[r].version > seeded[tripInstance[r].id].version
    /\ tripInstance[r] = tripInstances[tripInstance[r].id]

\* request r is past its conditional write, inside the open transaction
AfterWrite(r) == pc[r] \in {"findBooking", "create", "commit"}

\* C23 as stated: when the booking row is created the attempt has read the
\* departure again, so the row it read last carries the post-reservation
\* version, the version it read first plus one.
C23_ReverifiedBeforeCreate ==
  \A r \in Reqs :
    pc[r] = "commit" => tripInstance[r].version = tx[r].tripInstance.version

\* C23 amended: the attempt reads the departure once and does not read it
\* again after its conditional write; from that write until the commit the
\* committed row is still the row the attempt read, the only uncommitted
\* update of the row is the attempt's own and carries the version read plus
\* one, so the booking row is created and committed with no other writer's
\* change of the departure in between.
C23_NoInterleavedWriter ==
  \A r \in Reqs :
    AfterWrite(r) =>
      LET d == request[r].tripInstanceId
      IN /\ tripInstances[d] = tripInstance[r]
         /\ {q \in Reqs : tx[q].tripInstance.id = d} = {r}
         /\ tx[r].tripInstance.version = tripInstance[r].version + 1
         /\ tx[r].tripInstance.availableSeats =
              tripInstances[d].availableSeats - request[r].passengers

\* a retry holds its booking row, uncommitted, while another attempt that
\* read the same version waits to write
C23_Witness ==
  \E r \in Reqs, q \in Reqs :
    /\ q # r
    /\ pc[r] = "commit"
    /\ txCount[r] >= 2
    /\ pc[q] = "updateMany"
    /\ tripInstance[q] = tripInstance[r]

\* request r leaves the reference loop in this step with its candidate chosen
ChoosesRef(r) == pc[r] = "findBooking" /\ pc'[r] = "create"

\* C24: the reference the loop chooses for a new booking is never the
\* reference of a booking the store holds at that moment, whatever the draws.
C24_ChosenRefIsFree ==
  [][\A r \in Reqs :
       ChoosesRef(r) => \A b \in bookings : b.bookingRef # bookingRef'[r]]_vars

\* a request is about to insert a booking under a reference that a committed
\* booking carries, after ten candidates in a row collided
C24_Witness ==
  \E r \in Reqs :
    /\ pc[r] = "create"
    /\ attempts[r] = MaxRefAttempts
    /\ FindBooking(bookingRef[r]) # NullBooking

\* C25: when the tenth regenerated candidate has been drawn, so that every
\* checked candidate collided, the attempt does not go on to insert a
\* booking: it neither reaches the insert nor holds a booking row.
C25_ExhaustionIsFatal ==
  \A r \in Reqs :
    attempts[r] = MaxRefAttempts =>
      pc[r] \notin {"create", "commit"} /\ tx[r].booking = NullBooking

\* a request whose ten checked candidates collided goes on, its seat update
\* still open, to the insert of the eleventh candidate, which was never
\* checked and which the unique index will reject
C25_Witness ==
  \E r \in Reqs :
    /\ attempts[r] = MaxRefAttempts
    /\ pc[r] = "create"
    /\ tx[r].tripInstance # NullTripInstance
    /\ UniqueViolation(bookings, bookingRef[r])

\* C26: for every departure the available seats plus the passenger counts of
\* its committed bookings equal the seats it had before any booking, and its
\* version has advanced by one per committed booking: no committed update is
\* lost, although each write stores a value computed from a snapshot.
C26_SeatsConserved ==
  \A d \in TripInstanceIds :
    /\ tripInstances[d].availableSeats + SumPassengers(ConfirmedBookings(d)) =
         Capacity(d)
    /\ tripInstances[d].version =
         seeded[d].version + Cardinality(ConfirmedBookings(d))

\* a request that lost a race wrote from the snapshot of its retry, after
\* which the departure carries two bookings or more
C26_Witness ==
  \E r \in Reqs :
    /\ Succeeded(r)
    /\ txCount[r] >= 2
    /\ Cardinality(ConfirmedBookings(request[r].tripInstanceId)) >= 2
    /\ tripInstances[request[r].tripInstanceId].availableSeats <
         Capacity(request[r].tripInstanceId) - request[r].passengers

\* the committed bookings and passenger rows that request r created
BookingsOf(r) == {b \in bookings : b.id = r}
PassengersOf(r) == {p \in passengers : p.bookingId = r}

\* the request was answered with a failure
Failed(r) == Responded(r) /\ response[r].status # 200

\* C27: a request commits at most one booking, retries included; it is
\* answered with success only if exactly one booking with the returned
\* reference is committed, for the requested departure and with one passenger
\* row per passenger of the request; it is answered with a failure, or not
\* yet answered, only if it has committed nothing.
C27_AtMostOneBooking ==
  \A r \in Reqs :
    /\ Cardinality(BookingsOf(r)) <= 1
    /\ Succeeded(r) =>
         /\ Cardinality(BookingsOf(r)) = 1
         /\ {b \in bookings : b.bookingRef = response[r].bookingRef} = BookingsOf(r)
         /\ \A b \in BookingsOf(r) :
              /\ b.tripInstanceId = request[r].tripInstanceId
              /\ b.passengers = request[r].passengers
         /\ Cardinality(PassengersOf(r)) = request[r].passengers
    /\ ~Succeeded(r) => BookingsOf(r) = {} /\ PassengersOf(r) = {}

\* a request with two passengers succeeded on a retry and another request
\* failed on a retry
C27_Witness ==
  \E r \in Reqs, q \in Reqs :
    /\ Succeeded(r)
    /\ txCount[r] >= 2
    /\ request[r].passengers = 2
    /\ Failed(q)
    /\ txCount[q] >= 2

\* request r ends in this step on a version conflict that is not retried
Exhausts(r) ==
  /\ pc[r] = "updateMany"
  /\ pc'[r] = "done"
  /\ thrown'[r] = ConcurrentModification

\* request r has ended on a version conflict
EndedByConflict(r) == pc[r] = "done" /\ thrown[r] = ConcurrentModification

\* the committed bookings on departure d made by requests other than r
OtherBookings(r, d) == {b \in ConfirmedBookings(d) : b.id # r}

C28_Step ==
  \A r \in Reqs :
    Exhausts(r) =>
      LET d == request[r].tripInstanceId
      IN /\ firstRead[r] # NoVersion
         /\ tripInstances[d].version >= firstRead[r] + 3
         /\ Cardinality({v \in Versions : v >= firstRead[r] /\ commits[d][v] = 1}) >= 3
         /\ Cardinality(OtherBookings(r, d)) >= 3

\* C28: when a request ends by retry exhaustion, the version of its
\* departure at its last conditional write is at least three above the
\* version its first attempt read, that is at least three bookings of other
\* requests on the departure were committed in between; and no request for a
\* departure that at most three requests name ever ends on a version conflict.
C28_ExhaustionNeedsThreeCommits ==
  /\ [][C28_Step]_vars
  /\ [](\A r \in Reqs :
          Cardinality(RequestsFor(request[r].tripInstanceId)) <= 3 =>
            ~EndedByConflict(r))

\* a request ended on its third version conflict, on a departure that
\* carries three bookings of other requests
C28_Witness ==
  \E r \in Reqs :
    /\ EndedByConflict(r)
    /\ txCount[r] = MaxRetries
    /\ Cardinality(OtherBookings(r, request[r].tripInstanceId)) = 3
    /\ tripInstances[request[r].tripInstanceId].version =
         seeded[request[r].tripInstanceId].version + 3

\* the conditional write of request r affects zero rows in this step
Conflicts(r) == pc[r] = "updateMany" /\ thrown'[r] = ConcurrentModification

C29_Step ==
  \A r \in Reqs :
    Conflicts(r) =>
      LET d == tripInstance[r].id
          v == tripInstance[r].version
      IN /\ tripInstances[d].version > v
         /\ commits[d][v] = 1
         /\ \E b \in OtherBookings(r, d) : TRUE
         /\ tripInstances[d].availableSeats < tripInstance[r].availableSeats

\* C29: the conditional write of an attempt affects zero rows only if a
\* booking of another request on the same departure was committed after the
\* attempt read the row: the stored version is then above the version read,
\* and the write that was committed on the version read is a booking.
C29_NoSpuriousConflict == [][C29_Step]_vars

\* a request waits to retry after a conflict with the only booking committed
\* on its departure
C29_Witness ==
  \E r \in Reqs :
    /\ pc[r] = "delay"
    /\ thrown[r] = ConcurrentModification
    /\ Cardinality(OtherBookings(r, request[r].tripInstanceId)) = 1
    /\ tripInstances[request[r].tripInstanceId].version = firstRead[r] + 1

C30_Step ==
  \* committed bookings and passenger rows are neither changed nor removed
  /\ bookings \subseteq bookings'
  /\ passengers \subseteq passengers'
  /\ \A d \in TripInstanceIds :
       \* no status changes
       /\ tripInstances'[d].status = tripInstances[d].status
       \* seats and version change only by a request for this departure
       /\ tripInstances'[d] # tripInstances[d] =>
            \E r \in RequestsFor(d) :
              /\ Succeeds(r)
              /\ \A e \in TripInstanceIds \ {d} : tripInstances'[e] = tripInstances[e]
  \* an uncommitted update is one of the requested departure, status unchanged
  /\ \A r \in Reqs :
       tx'[r].tripInstance # NullTripInstance =>
         /\ tx'[r].tripInstance.id = request[r].tripInstanceId
         /\ tx'[r].tripInstance.status = tripInstances[request[r].tripInstanceId].status

\* C30: a request for departure d changes the seats, version or status of no
\* other departure and the status of no departure at all, d included, and no
\* request changes or removes a booking or passenger row already committed.
C30_Frame == [][C30_Step]_vars

\* bookings were committed on both departures, the later one with the
\* earlier one's booking and row in the store
C30_Witness ==
  \E r \in Reqs, q \in Reqs :
    /\ request[r].tripInstanceId # request[q].tripInstanceId
    /\ Succeeded(r)
    /\ Succeeded(q)
    /\ \A d \in TripInstanceIds :
         tripInstances[d].version = seeded[d].version + Cardinality(RequestsFor(d))

====
